---- MODULE Spec2Model ----
(***************************************************************************)
(* Model of the revenue ledger QuantumRevenueEngine                        *)
(* (src/revenue-engine/revenue_tracker.py).                                *)
(*                                                                         *)
(* Python floats are modelled as exact rationals <<n, d>> in lowest terms  *)
(* with d > 0.  The formatted strings the summaries return ("$1,234.50",   *)
(* "4.76%") are modelled by the integer number of hundredths they print,   *)
(* i.e. by what the ":,.2f" / ":.2f" conversion keeps of the value.        *)
(***************************************************************************)
EXTENDS Integers, Sequences, FiniteSets, TLC

(* ------------------------------ bounds --------------------------------- *)
\* cap on the number of transactions recorded in the global history
MaxHist == 2
\* largest `months` argument given to project_revenue
MaxMonths == 3
\* cap on the number of calls made on one engine
MaxCalls == 4
\* cap on the number of calls made on one engine that exports reports
MaxExportCalls == 3
\* cap on the number of product lines an orchestrator registers
MaxStreams == 2

(* --------------------------- input domains ----------------------------- *)
ProductIds == {"p1", "p2"}
\* (product_name, pricing_min, pricing_max, target_mrr); the second tuple has
\* inverted pricing bounds and a target MRR of one third, which is not a
\* whole number of cents
RegisterArgs == { <<"Alpha", <<9, 1>>, <<99, 1>>, <<29, 1>> >>,
                  <<"Beta", <<299, 1>>, <<199, 1>>, <<1, 3>> >> }
\* (amount, stream_type) of a transaction; amounts are not validated
TransactionArgs == { <<<<10, 1>>, "saas_subscription">>, <<<<-5, 1>>, "usage_based">> }
\* customer counts given to update_customer_count
Customers == {0, 3}
\* (previous_customers, current_customers, period_days) given to
\* calculate_churn_rate: no previous customers, a loss of one customer in
\* three under two periods, and growth
ChurnArgs == { <<0, 2, 30>>, <<3, 2, 30>>, <<3, 2, 7>>, <<3, 4, 30>> }
\* (avg_monthly_revenue, avg_customer_lifespan_months) given to calculate_ltv
LtvArgs == { <<<<145, 2>>, 24>> }
\* values datetime.utcnow() may yield, in days
Times == {1, 2}
\* destinations given to export_report
Paths == {"revenue_report.json"}
\* what may go wrong inside export_report: nothing, open() raising, or
\* f.write() raising once open() has truncated the file
ExportFaults == {"none", "open", "write"}

(* --------------------------- rational numbers -------------------------- *)
Abs(x) == IF x < 0 THEN -x ELSE x

RECURSIVE GCD(_, _)
GCD(a, b) == IF b = 0 THEN a ELSE GCD(b, a % b)

\* n/d in lowest terms, d # 0
Rat(n, d) ==
    LET s == IF d < 0 THEN -1 ELSE 1
        g == GCD(Abs(n), Abs(d))
    IN  IF n = 0 THEN <<0, 1>> ELSE <<(s * n) \div g, (s * d) \div g>>

RInt(k) == <<k, 1>>
\* least common multiple of two positive denominators
LCM(a, b) == (a \div GCD(a, b)) * b
RAdd(a, b) ==
    LET l == LCM(a[2], b[2])
    IN  Rat(a[1] * (l \div a[2]) + b[1] * (l \div b[2]), l)
RSub(a, b) == RAdd(a, <<-b[1], b[2]>>)
RMul(a, b) == Rat(a[1] * b[1], a[2] * b[2])
\* a / b, b # 0
RDiv(a, b) == Rat(a[1] * b[2], a[2] * b[1])

RECURSIVE RPow(_, _)
RPow(a, m) == IF m = 0 THEN RInt(1) ELSE RMul(a, RPow(a, m - 1))

\* the number of hundredths printed by the ".2f" conversion of r: r rounded
\* to two decimals, ties to even
Round2(r) ==
    LET d   == r[2]
        \* the integer part and the two decimals, by long division
        t1  == (r[1] % d) * 10
        t2  == (t1 % d) * 10
        q   == (r[1] \div d) * 100 + (t1 \div d) * 10 + (t2 \div d)
        rem == t2 % d
    IN  IF 2 * rem > d THEN q + 1
        ELSE IF 2 * rem < d THEN q
        ELSE IF q % 2 = 0 THEN q ELSE q + 1

\* the rational a ".2f" string of c hundredths reads back as
Parse2(c) == Rat(c, 100)

RECURSIVE SumSeq(_)
SumSeq(s) == IF s = <<>> THEN RInt(0) ELSE RAdd(Head(s), SumSeq(Tail(s)))

RECURSIVE SumInts(_)
SumInts(s) == IF s = <<>> THEN 0 ELSE Head(s) + SumInts(Tail(s))

(* ------------------------------- state --------------------------------- *)
VARIABLES
    products,               \* self.products: product_id -> ProductRevenue
    keys,                   \* insertion order of the dict self.products
    total_revenue_history,  \* self.total_revenue_history
    next_id,                \* identity of the next RevenueMetric object
    file,                   \* content of the file export_report writes to
    calls,                  \* number of calls made on the engine so far
    call,                   \* the last call made on the engine, with its arguments
    ret,                    \* the value that call returned
    \* AutonomousOrchestrator (src/orchestrator/autonomous_orchestrator.py)
    revenue_streams,        \* self.revenue_engine.revenue_streams
    orchestrator_products,  \* self.products of the orchestrator
    pc,                     \* position of create_product_line, "idle" between calls
    locals,                 \* its local variables
    console,                \* the "[n/5]" progress lines it printed in this call
    result                  \* what the last finished create_product_line returned

ledgerVars == <<products, keys, total_revenue_history, next_id, file, calls, call, ret>>
orchestratorVars == <<revenue_streams, orchestrator_products, pc, locals, console, result>>
vars == <<products, keys, total_revenue_history, next_id, file, calls, call, ret,
          revenue_streams, orchestrator_products, pc, locals, console, result>>

\* Python's None
None == [none |-> TRUE]

\* RevenueMetric(stream_type, amount, source_product); `id` is the identity
\* of the object, which both histories share
RevenueMetric(id, stream_type, amount, t, source_product) ==
    [id |-> id, stream_type |-> stream_type, amount |-> amount,
     currency |-> "USD", timestamp |-> t, source_product |-> source_product]

\* ProductRevenue(...) with the dataclass defaults
ProductRevenue(product_id, product_name, pricing_min, pricing_max, target_mrr) ==
    [product_id |-> product_id,
     product_name |-> product_name,
     pricing_tier_min |-> pricing_min,
     pricing_tier_max |-> pricing_max,
     monthly_recurring_revenue |-> target_mrr,
     active_customers |-> 0,
     churn_rate |-> RInt(0),
     lifetime_value |-> RInt(0),
     revenue_history |-> <<>>]

\* the values of the dict, in iteration order
Values(prods, order) == [i \in 1..Len(order) |-> prods[order[i]]]

Init ==
    /\ products = [p \in {} |-> None]
    /\ keys = <<>>
    /\ total_revenue_history = <<>>
    /\ next_id = 1
    /\ file = None
    /\ calls = 0
    /\ call = [op |-> "__init__"]
    /\ ret = None
    /\ revenue_streams = <<>>
    /\ orchestrator_products = [p \in {} |-> None]
    /\ pc = "idle"
    /\ locals = [product_type |-> "", generated |-> FALSE,
                 repo_result |-> None, push_success |-> FALSE]
    /\ console = <<>>
    /\ result = None

(* ------------------------- pure computations --------------------------- *)
\* the churn rate normalised to a 30-day period
ChurnRate_PeriodScaled(previous_customers, current_customers, period_days) ==
    IF previous_customers = 0 THEN RInt(0)
    ELSE LET churned == IF previous_customers - current_customers > 0
                        THEN previous_customers - current_customers ELSE 0
         IN  RMul(RMul(RDiv(RInt(churned), RInt(previous_customers)), RInt(100)),
                  Rat(30, period_days))

\* the rate calculate_churn_rate returns
ChurnRate(previous_customers, current_customers, period_days) ==
    IF previous_customers = 0 THEN RInt(0)
    ELSE LET churned == IF previous_customers - current_customers > 0
                        THEN previous_customers - current_customers ELSE 0
         IN  RMul(RDiv(RInt(churned), RInt(previous_customers)), RInt(100))

\* the value calculate_ltv returns
Ltv(avg_monthly_revenue, avg_customer_lifespan_months) ==
    RMul(avg_monthly_revenue, RInt(avg_customer_lifespan_months))

\* the dict get_product_summary builds for a registered product
ProductSummary(product) ==
    [product_id |-> product.product_id,
     product_name |-> product.product_name,
     target_mrr |-> product.monthly_recurring_revenue,
     annual_run_rate |-> RMul(product.monthly_recurring_revenue, RInt(12)),
     active_customers |-> product.active_customers,
     churn_rate |-> Round2(product.churn_rate),
     lifetime_value |-> Round2(product.lifetime_value),
     total_recorded_revenue |->
         Round2(SumSeq([i \in 1..Len(product.revenue_history) |->
                            product.revenue_history[i].amount])),
     pricing_range |-> <<product.pricing_tier_min, product.pricing_tier_max>>]

\* the dict get_portfolio_summary builds
PortfolioSummary(prods, order) ==
    LET vals == Values(prods, order)
        total_mrr == SumSeq([i \in 1..Len(vals) |-> vals[i].monthly_recurring_revenue])
        total_arr == RMul(total_mrr, RInt(12))
        total_customers == SumInts([i \in 1..Len(vals) |-> vals[i].active_customers])
        avg_churn == IF Len(vals) > 0
                     THEN RDiv(SumSeq([i \in 1..Len(vals) |-> vals[i].churn_rate]),
                               RInt(Len(vals)))
                     ELSE RInt(0)
    IN  [total_products |-> Len(vals),
         total_mrr |-> Round2(total_mrr),
         total_arr |-> Round2(total_arr),
         total_active_customers |-> total_customers,
         average_churn_rate |-> Round2(avg_churn),
         portfolio |-> [i \in 1..Len(order) |-> ProductSummary(prods[order[i]])]]

\* one product's projected MRR in month `month`
ProjectedMrr(product, month) ==
    LET churn_factor == RSub(RInt(1), RDiv(product.churn_rate, RInt(100)))
    IN  RMul(product.monthly_recurring_revenue, RPow(churn_factor, month))

\* total_projected of month `month`
TotalProjected(prods, order, month) ==
    LET vals == Values(prods, order)
    IN  SumSeq([i \in 1..Len(vals) |-> ProjectedMrr(vals[i], month)])

DaysPerMonth == 30

\* project_revenue iterating range(months) instead of range(1, months + 1)
Projection_ZeroBased(prods, order, months, t) ==
    [projection_period_months |-> months,
     projections |->
        [i \in 1..(IF months > 0 THEN months ELSE 0) |->
            [month |-> i - 1,
             date |-> t + DaysPerMonth * (i - 1),
             projected_mrr |-> Round2(TotalProjected(prods, order, i - 1)),
             projected_arr |-> Round2(RMul(TotalProjected(prods, order, i - 1), RInt(12)))]]]

\* the dict project_revenue builds, current_date being t
Projection(prods, order, months, t) ==
    [projection_period_months |-> months,
     projections |->
        [month \in 1..(IF months > 0 THEN months ELSE 0) |->
            [month |-> month,
             date |-> t + DaysPerMonth * month,
             projected_mrr |-> Round2(TotalProjected(prods, order, month)),
             projected_arr |-> Round2(RMul(TotalProjected(prods, order, month), RInt(12)))]]]

(* ------------------------------ operations ----------------------------- *)
\* register_product recording the key once more when the id is already
\* registered, so that iteration meets the product twice
register_product_duplicate_key(product_id, product_name, pricing_min, pricing_max, target_mrr) ==
    LET product == ProductRevenue(product_id, product_name, pricing_min, pricing_max, target_mrr)
    IN  /\ products' = [p \in DOMAIN products \cup {product_id} |->
                            IF p = product_id THEN product ELSE products[p]]
        /\ keys' = Append(keys, product_id)
        /\ call' = [op |-> "register_product", product_id |-> product_id,
                    product_name |-> product_name, pricing_min |-> pricing_min,
                    pricing_max |-> pricing_max, target_mrr |-> target_mrr]
        /\ ret' = product
        /\ UNCHANGED <<total_revenue_history, next_id>>

\* register_product purging the replaced record's transactions from the
\* global history as well
register_product_purge(product_id, product_name, pricing_min, pricing_max, target_mrr) ==
    LET product == ProductRevenue(product_id, product_name, pricing_min, pricing_max, target_mrr)
        Kept(m) == m.source_product # product_id
    IN  /\ products' = [p \in DOMAIN products \cup {product_id} |->
                            IF p = product_id THEN product ELSE products[p]]
        /\ keys' = IF product_id \in DOMAIN products THEN keys ELSE Append(keys, product_id)
        /\ total_revenue_history' = SelectSeq(total_revenue_history, Kept)
        /\ call' = [op |-> "register_product", product_id |-> product_id,
                    product_name |-> product_name, pricing_min |-> pricing_min,
                    pricing_max |-> pricing_max, target_mrr |-> target_mrr]
        /\ ret' = product
        /\ UNCHANGED next_id

\* register_product updating an existing record in place instead of
\* replacing it: the metrics and history of the old record survive
register_product_merge(product_id, product_name, pricing_min, pricing_max, target_mrr) ==
    LET fresh == ProductRevenue(product_id, product_name, pricing_min, pricing_max, target_mrr)
        product == IF product_id \in DOMAIN products
                   THEN [fresh EXCEPT !.revenue_history = products[product_id].revenue_history,
                                      !.active_customers = products[product_id].active_customers]
                   ELSE fresh
    IN  /\ products' = [p \in DOMAIN products \cup {product_id} |->
                            IF p = product_id THEN product ELSE products[p]]
        /\ keys' = IF product_id \in DOMAIN products THEN keys ELSE Append(keys, product_id)
        /\ call' = [op |-> "register_product", product_id |-> product_id,
                    product_name |-> product_name, pricing_min |-> pricing_min,
                    pricing_max |-> pricing_max, target_mrr |-> target_mrr]
        /\ ret' = product
        /\ UNCHANGED <<total_revenue_history, next_id>>

register_product(product_id, product_name, pricing_min, pricing_max, target_mrr) ==
    LET product == ProductRevenue(product_id, product_name, pricing_min, pricing_max, target_mrr)
    IN  /\ products' = [p \in DOMAIN products \cup {product_id} |->
                            IF p = product_id THEN product ELSE products[p]]
        /\ keys' = IF product_id \in DOMAIN products THEN keys ELSE Append(keys, product_id)
        /\ call' = [op |-> "register_product", product_id |-> product_id,
                    product_name |-> product_name, pricing_min |-> pricing_min,
                    pricing_max |-> pricing_max, target_mrr |-> target_mrr]
        /\ ret' = product
        /\ UNCHANGED <<total_revenue_history, next_id>>

\* record_transaction without its membership test on the global history: the
\* metric is logged globally before the product is looked up
record_transaction_unguarded(product_id, amount, stream_type, t) ==
    LET metric == RevenueMetric(next_id, stream_type, amount, t, product_id)
    IN  /\ call' = [op |-> "record_transaction", product_id |-> product_id,
                    amount |-> amount, stream_type |-> stream_type]
        /\ Len(total_revenue_history) < MaxHist
        /\ total_revenue_history' = Append(total_revenue_history, metric)
        /\ next_id' = next_id + 1
        /\ IF product_id \notin DOMAIN products
           THEN /\ ret' = FALSE
                /\ UNCHANGED products
           ELSE /\ products' = [products EXCEPT ![product_id].revenue_history =
                                                    Append(@, metric)]
                /\ ret' = TRUE
        /\ UNCHANGED keys

\* record_transaction logging the metric in the product's history only
record_transaction_product_only(product_id, amount, stream_type, t) ==
    /\ call' = [op |-> "record_transaction", product_id |-> product_id,
                amount |-> amount, stream_type |-> stream_type]
    /\ IF product_id \notin DOMAIN products
       THEN /\ ret' = FALSE
            /\ UNCHANGED <<products, keys, total_revenue_history, next_id>>
       ELSE LET metric == RevenueMetric(next_id, stream_type, amount, t, product_id)
            IN  /\ Len(products[product_id].revenue_history) < MaxHist
                /\ products' = [products EXCEPT ![product_id].revenue_history =
                                                    Append(@, metric)]
                /\ next_id' = next_id + 1
                /\ ret' = TRUE
                /\ UNCHANGED <<keys, total_revenue_history>>

record_transaction(product_id, amount, stream_type, t) ==
    /\ call' = [op |-> "record_transaction", product_id |-> product_id,
                amount |-> amount, stream_type |-> stream_type]
    /\ IF product_id \notin DOMAIN products
       THEN /\ ret' = FALSE
            /\ UNCHANGED <<products, keys, total_revenue_history, next_id>>
       ELSE LET metric == RevenueMetric(next_id, stream_type, amount, t, product_id)
            IN  /\ Len(total_revenue_history) < MaxHist
                /\ products' = [products EXCEPT ![product_id].revenue_history =
                                                    Append(@, metric)]
                /\ total_revenue_history' = Append(total_revenue_history, metric)
                /\ next_id' = next_id + 1
                /\ ret' = TRUE
                /\ UNCHANGED keys

update_customer_count(product_id, customer_count) ==
    /\ call' = [op |-> "update_customer_count", product_id |-> product_id,
                customer_count |-> customer_count]
    /\ IF product_id \notin DOMAIN products
       THEN /\ ret' = FALSE
            /\ UNCHANGED products
       ELSE /\ products' = [products EXCEPT ![product_id].active_customers = customer_count]
            /\ ret' = TRUE
    /\ UNCHANGED <<keys, total_revenue_history, next_id>>

calculate_churn_rate(product_id, previous_customers, current_customers, period_days) ==
    /\ call' = [op |-> "calculate_churn_rate", product_id |-> product_id,
                previous_customers |-> previous_customers,
                current_customers |-> current_customers, period_days |-> period_days]
    /\ ret' = ChurnRate(previous_customers, current_customers, period_days)
    /\ IF previous_customers # 0 /\ product_id \in DOMAIN products
       THEN products' = [products EXCEPT ![product_id].churn_rate =
                            ChurnRate(previous_customers, current_customers, period_days)]
       ELSE UNCHANGED products
    /\ UNCHANGED <<keys, total_revenue_history, next_id>>

\* calculate_ltv failing softly on an unregistered id, as the transaction
\* and mutation calls do
calculate_ltv_known_only(product_id, avg_monthly_revenue, avg_customer_lifespan_months) ==
    LET ltv == Ltv(avg_monthly_revenue, avg_customer_lifespan_months)
    IN  /\ call' = [op |-> "calculate_ltv", product_id |-> product_id,
                    avg_monthly_revenue |-> avg_monthly_revenue,
                    avg_customer_lifespan_months |-> avg_customer_lifespan_months]
        /\ IF product_id \in DOMAIN products
           THEN /\ products' = [products EXCEPT ![product_id].lifetime_value = ltv]
                /\ ret' = ltv
           ELSE /\ UNCHANGED products
                /\ ret' = RInt(0)
        /\ UNCHANGED <<keys, total_revenue_history, next_id>>

\* calculate_ltv storing its result in the wrong field of the record
calculate_ltv_wrong_field(product_id, avg_monthly_revenue, avg_customer_lifespan_months) ==
    LET ltv == Ltv(avg_monthly_revenue, avg_customer_lifespan_months)
    IN  /\ call' = [op |-> "calculate_ltv", product_id |-> product_id,
                    avg_monthly_revenue |-> avg_monthly_revenue,
                    avg_customer_lifespan_months |-> avg_customer_lifespan_months]
        /\ ret' = ltv
        /\ IF product_id \in DOMAIN products
           THEN products' = [products EXCEPT ![product_id].monthly_recurring_revenue = ltv]
           ELSE UNCHANGED products
        /\ UNCHANGED <<keys, total_revenue_history, next_id>>

calculate_ltv(product_id, avg_monthly_revenue, avg_customer_lifespan_months) ==
    LET ltv == Ltv(avg_monthly_revenue, avg_customer_lifespan_months)
    IN  /\ call' = [op |-> "calculate_ltv", product_id |-> product_id,
                    avg_monthly_revenue |-> avg_monthly_revenue,
                    avg_customer_lifespan_months |-> avg_customer_lifespan_months]
        /\ ret' = ltv
        /\ IF product_id \in DOMAIN products
           THEN products' = [products EXCEPT ![product_id].lifetime_value = ltv]
           ELSE UNCHANGED products
        /\ UNCHANGED <<keys, total_revenue_history, next_id>>

get_product_summary(product_id) ==
    /\ call' = [op |-> "get_product_summary", product_id |-> product_id]
    /\ ret' = IF product_id \notin DOMAIN products THEN None
              ELSE ProductSummary(products[product_id])
    /\ UNCHANGED <<products, keys, total_revenue_history, next_id>>

get_portfolio_summary ==
    /\ call' = [op |-> "get_portfolio_summary"]
    /\ ret' = PortfolioSummary(products, keys)
    /\ UNCHANGED <<products, keys, total_revenue_history, next_id>>

\* project_revenue writing the decayed MRR of the last month back to the
\* records
project_revenue_in_place(months, t) ==
    /\ call' = [op |-> "project_revenue", months |-> months]
    /\ ret' = Projection(products, keys, months, t)
    /\ products' = [p \in DOMAIN products |->
                        [products[p] EXCEPT !.monthly_recurring_revenue =
                            ProjectedMrr(products[p], IF months > 0 THEN months ELSE 0)]]
    /\ UNCHANGED <<keys, total_revenue_history, next_id>>

project_revenue(months, t) ==
    /\ call' = [op |-> "project_revenue", months |-> months]
    /\ ret' = Projection(products, keys, months, t)
    /\ UNCHANGED <<products, keys, total_revenue_history, next_id>>

\* months of projection in an exported report
ReportMonths == 12

\* str() of a RevenueStream member, as json.dumps(default=str) writes it
StreamStr(stream_type) ==
    CASE stream_type = "saas_subscription" -> "RevenueStream.SAAS_SUBSCRIPTION"
      [] stream_type = "usage_based" -> "RevenueStream.USAGE_BASED"
      [] stream_type = "enterprise_license" -> "RevenueStream.ENTERPRISE_LICENSE"
      [] stream_type = "marketplace" -> "RevenueStream.MARKETPLACE"

\* asdict(product) as serialized: the fields of the record, each metric a
\* dict of its fields (the identity of the object is not a field)
AsDict(product) ==
    [product EXCEPT !.revenue_history =
        [i \in 1..Len(product.revenue_history) |->
            [stream_type |-> StreamStr(product.revenue_history[i].stream_type),
             amount |-> product.revenue_history[i].amount,
             currency |-> product.revenue_history[i].currency,
             timestamp |-> product.revenue_history[i].timestamp,
             source_product |-> product.revenue_history[i].source_product]]]

\* the report export_report serializes, utcnow() being t1 then t2
Report(prods, order, t1, t2) ==
    [generated_at |-> t1,
     portfolio_summary |-> PortfolioSummary(prods, order),
     revenue_projections |-> Projection(prods, order, ReportMonths, t2),
     products |-> [p \in DOMAIN prods |-> AsDict(prods[p])]]

\* a file open() has truncated and nothing was written to
EmptyFile == [empty |-> TRUE]

\* export_report returning True whatever happened to the file
export_report_always_true(filepath, t1, t2, fault) ==
    /\ call' = [op |-> "export_report", filepath |-> filepath, fault |-> fault]
    /\ ret' = TRUE
    /\ file' = IF fault = "none" THEN Report(products, keys, t1, t2)
               ELSE IF fault = "write" THEN EmptyFile ELSE file
    /\ UNCHANGED <<products, keys, total_revenue_history, next_id>>

\* `fault` is what the file system does to this call
export_report(filepath, t1, t2, fault) ==
    /\ call' = [op |-> "export_report", filepath |-> filepath, fault |-> fault]
    /\ IF fault = "none"
       THEN /\ file' = Report(products, keys, t1, t2)
            /\ ret' = TRUE
       ELSE /\ file' = IF fault = "write" THEN EmptyFile ELSE file
            /\ ret' = FALSE
    /\ UNCHANGED <<products, keys, total_revenue_history, next_id>>

\* every call is counted, up to MaxCalls
Counted ==
    /\ calls < MaxCalls
    /\ calls' = calls + 1
    /\ UNCHANGED orchestratorVars

Next ==
    \/ \E p \in ProductIds, a \in RegisterArgs :
            Counted /\ register_product(p, a[1], a[2], a[3], a[4]) /\ UNCHANGED file
    \/ \E p \in ProductIds, a \in TransactionArgs, t \in Times :
            Counted /\ record_transaction(p, a[1], a[2], t) /\ UNCHANGED file
    \/ \E p \in ProductIds, c \in Customers :
            Counted /\ update_customer_count(p, c) /\ UNCHANGED file
    \/ \E p \in ProductIds, a \in ChurnArgs :
            Counted /\ calculate_churn_rate(p, a[1], a[2], a[3]) /\ UNCHANGED file
    \/ \E p \in ProductIds, a \in LtvArgs :
            Counted /\ calculate_ltv(p, a[1], a[2]) /\ UNCHANGED file
    \/ \E p \in ProductIds :
            Counted /\ get_product_summary(p) /\ UNCHANGED file
    \/ Counted /\ get_portfolio_summary /\ UNCHANGED file
    \/ \E m \in 0..MaxMonths, t \in Times :
            Counted /\ project_revenue(m, t) /\ UNCHANGED file

Spec == Init /\ [][Next]_vars

\* the calls that change the ledger, and export_report, whose reports are
\* large: counted up to MaxExportCalls
CountedExport ==
    /\ calls < MaxExportCalls
    /\ calls' = calls + 1
    /\ UNCHANGED orchestratorVars

NextExport ==
    \/ \E p \in ProductIds, a \in RegisterArgs :
            CountedExport /\ register_product(p, a[1], a[2], a[3], a[4]) /\ UNCHANGED file
    \/ \E p \in ProductIds, a \in TransactionArgs, t \in Times :
            CountedExport /\ record_transaction(p, a[1], a[2], t) /\ UNCHANGED file
    \/ \E p \in ProductIds, c \in Customers :
            CountedExport /\ update_customer_count(p, c) /\ UNCHANGED file
    \/ \E p \in ProductIds, a \in ChurnArgs :
            CountedExport /\ calculate_churn_rate(p, a[1], a[2], a[3]) /\ UNCHANGED file
    \/ \E p \in ProductIds, a \in LtvArgs :
            CountedExport /\ calculate_ltv(p, a[1], a[2]) /\ UNCHANGED file
    \/ \E f \in Paths, t1 \in Times, t2 \in Times, x \in ExportFaults :
            CountedExport /\ export_report(f, t1, t2, x)

ExportSpec == Init /\ [][NextExport]_vars

(* --------------------------- the orchestrator -------------------------- *)
\* the argument of create_product_line
ProductTypes == {"mesh-messenger", "governance-platform"}

\* AutonomousOrchestrator.PRODUCT_CONFIGS
PRODUCT_CONFIGS ==
    [t \in {"mesh-messenger"} |->
        [name |-> "Zero-Human Mesh Messenger",
         description |-> "AI-powered offline mesh communication network",
         template |-> "mesh-messenger",
         tech_stack |-> <<"Python", "FastAPI", "React Native", "Bluetooth/WiFi Direct">>,
         pricing_min |-> 9,
         pricing_max |-> 99,
         target_mrr |-> 14500,
         github_repo |-> "mesh-messenger",
         deployment_type |-> "kubernetes"]]

\* the keys of ProductFactory.TEMPLATES
TEMPLATES == {"mesh-messenger"}

\* what the hosted Git API may answer to the creation request: 201, another
\* status, or no answer (an exception)
RepoOutcomes == {"created", "rejected", "error"}

\* the dict create_repository returns
RepoResult(repo_name, outcome) ==
    IF outcome = "created"
    THEN [success |-> TRUE,
          url |-> <<"html_url", repo_name>>,
          clone_url |-> <<"clone_url", repo_name>>,
          ssh_url |-> <<"ssh_url", repo_name>>]
    ELSE [success |-> FALSE, error |-> outcome]

\* the dict the orchestrator's revenue engine appends for a config
ProductRevenueDict(config, t) ==
    [name |-> config.name,
     pricing_min |-> config.pricing_min,
     pricing_max |-> config.pricing_max,
     target_mrr |-> config.target_mrr,
     estimated_arr |-> config.target_mrr * 12,
     deployment_date |-> t,
     status |-> "active"]

\* entry of create_product_line: the product type is looked up
create_product_line(product_type) ==
    /\ pc = "idle"
    /\ Len(revenue_streams) < MaxStreams
    /\ console' = <<>>
    /\ locals' = [product_type |-> product_type, generated |-> FALSE,
                  repo_result |-> None, push_success |-> FALSE]
    /\ IF product_type \notin DOMAIN PRODUCT_CONFIGS
       THEN /\ result' = None
            /\ pc' = "idle"
       ELSE /\ pc' = "generate_product"
            /\ UNCHANGED result
    /\ UNCHANGED <<revenue_streams, orchestrator_products>>

\* step 1, ProductFactory.generate_product; `written` is whether the file
\* system let the files be written
generate_product(written) ==
    /\ pc = "generate_product"
    /\ console' = Append(console, "[1/5]")
    /\ LET ok == locals.product_type \in TEMPLATES /\ written
       IN  /\ locals' = [locals EXCEPT !.generated = ok]
           /\ IF ok
              THEN pc' = "create_repository" /\ UNCHANGED result
              ELSE pc' = "idle" /\ result' = None
    /\ UNCHANGED <<revenue_streams, orchestrator_products>>

\* step 2, GitHubManager.create_repository
create_repository(outcome) ==
    /\ pc = "create_repository"
    /\ console' = Append(console, "[2/5]")
    /\ LET config == PRODUCT_CONFIGS[locals.product_type]
           repo_result == RepoResult(config.github_repo, outcome)
       IN  /\ locals' = [locals EXCEPT !.repo_result = repo_result]
           /\ IF repo_result.success
              THEN pc' = "push_code" /\ UNCHANGED result
              ELSE pc' = "idle" /\ result' = None
    /\ UNCHANGED <<revenue_streams, orchestrator_products>>

\* step 3 returning None when the push fails
push_code_abort(pushed) ==
    /\ pc = "push_code"
    /\ console' = Append(console, "[3/5]")
    /\ locals' = [locals EXCEPT !.push_success = pushed]
    /\ IF pushed
       THEN pc' = "register_product" /\ UNCHANGED result
       ELSE pc' = "idle" /\ result' = None
    /\ UNCHANGED <<revenue_streams, orchestrator_products>>

\* step 3, GitHubManager.push_code: a failure is only warned about
push_code(pushed) ==
    /\ pc = "push_code"
    /\ console' = Append(console, "[3/5]")
    /\ locals' = [locals EXCEPT !.push_success = pushed]
    /\ pc' = "register_product"
    /\ UNCHANGED <<revenue_streams, orchestrator_products, result>>

\* step 4, register_product of the orchestrator's revenue engine
engine_register_product(t) ==
    /\ pc = "register_product"
    /\ console' = Append(console, "[4/5]")
    /\ revenue_streams' =
          Append(revenue_streams, ProductRevenueDict(PRODUCT_CONFIGS[locals.product_type], t))
    /\ pc' = "deployment"
    /\ UNCHANGED <<orchestrator_products, locals, result>>

\* step 5: the product is entered in self.products and its config returned
deployment(t) ==
    /\ pc = "deployment"
    /\ console' = Append(console, "[5/5]")
    /\ LET config == PRODUCT_CONFIGS[locals.product_type]
           entry  == [config |-> config, repo_url |-> locals.repo_result.url,
                      created_at |-> t]
       IN  /\ orchestrator_products' =
                 [p \in DOMAIN orchestrator_products \cup {locals.product_type} |->
                     IF p = locals.product_type THEN entry ELSE orchestrator_products[p]]
           /\ result' = config
    /\ pc' = "idle"
    /\ UNCHANGED <<revenue_streams, locals>>

NextOrchestrator ==
    \/ \E p \in ProductTypes : create_product_line(p) /\ UNCHANGED ledgerVars
    \/ \E w \in BOOLEAN : generate_product(w) /\ UNCHANGED ledgerVars
    \/ \E o \in RepoOutcomes : create_repository(o) /\ UNCHANGED ledgerVars
    \/ \E b \in BOOLEAN : push_code(b) /\ UNCHANGED ledgerVars
    \/ \E t \in Times : engine_register_product(t) /\ UNCHANGED ledgerVars
    \/ \E t \in Times : deployment(t) /\ UNCHANGED ledgerVars

OrchestratorSpec == Init /\ [][NextOrchestrator]_vars

(* ------------------------------- claims -------------------------------- *)
\* the elements of a sequence
Range(s) == { s[i] : i \in 1..Len(s) }

\* C1: on a product_id that is not a key of the product mapping,
\* record_transaction and update_customer_count return false and
\* get_product_summary returns None, and the product mapping and the global
\* history are the same after the call as before it.
C1_AbsentProductFailsSoftly ==
    [][ ( /\ call'.op \in {"record_transaction", "update_customer_count",
                           "get_product_summary"}
          /\ call'.product_id \notin DOMAIN products )
        => /\ IF call'.op = "get_product_summary" THEN ret' = None ELSE ret' = FALSE
           /\ products' = products
           /\ keys' = keys
           /\ total_revenue_history' = total_revenue_history
           /\ Len(total_revenue_history') = Len(total_revenue_history) ]_vars

\* a transaction on an unregistered id was refused while the ledger already
\* held a product and a recorded transaction
C1_Witness ==
    /\ call.op = "record_transaction"
    /\ call.product_id \notin DOMAIN products
    /\ ret = FALSE
    /\ DOMAIN products # {}
    /\ Len(total_revenue_history) > 0

\* C2: register_product on an already registered product_id leaves under it
\* a record with empty revenue_history, active_customers = 0, churn_rate = 0,
\* lifetime_value = 0 and the newly supplied name, pricing bounds and target
\* MRR, whatever preceded.
C2_ReRegistrationResets ==
    [][ ( /\ call'.op = "register_product"
          /\ call'.product_id \in DOMAIN products )
        => products'[call'.product_id] =
              [product_id |-> call'.product_id,
               product_name |-> call'.product_name,
               pricing_tier_min |-> call'.pricing_min,
               pricing_tier_max |-> call'.pricing_max,
               monthly_recurring_revenue |-> call'.target_mrr,
               active_customers |-> 0,
               churn_rate |-> <<0, 1>>,
               lifetime_value |-> <<0, 1>>,
               revenue_history |-> <<>>] ]_vars

\* a product that had recorded a transaction was registered again: the global
\* history still names it, its own history is empty
C2_Witness ==
    /\ call.op = "register_product"
    /\ \E m \in Range(total_revenue_history) : m.source_product = call.product_id
    /\ products[call.product_id].revenue_history = <<>>
    /\ products[call.product_id].product_name = call.product_name

\* C3 as stated: a metric recorded for P stays, in every later state, an
\* element of products[P].revenue_history and of total_revenue_history.
C3_RetainedInBothHistories ==
    [][ \A P \in DOMAIN products :
          \A m \in Range(products[P].revenue_history) :
             /\ P \in DOMAIN products'
             /\ m \in Range(products'[P].revenue_history)
             /\ m \in Range(total_revenue_history') ]_vars

\* C3 (amended): the global history is append-only, so a recorded metric
\* stays in it for ever with unchanged fields; it stays in
\* products[P].revenue_history until register_product is called again on P,
\* which replaces the record and discards its history.
C3_RetainedUntilReRegistration ==
    [][ /\ Len(total_revenue_history') >= Len(total_revenue_history)
        /\ SubSeq(total_revenue_history', 1, Len(total_revenue_history))
              = total_revenue_history
        /\ \A P \in DOMAIN products :
             \A m \in Range(products[P].revenue_history) :
                /\ m \in Range(total_revenue_history')
                /\ \/ call'.op = "register_product" /\ call'.product_id = P
                   \/ /\ P \in DOMAIN products'
                      /\ m \in Range(products'[P].revenue_history) ]_vars

\* a recorded metric is still in both histories after a later registration
\* of another product
C3_Witness ==
    /\ call.op = "register_product"
    /\ \E m \in Range(total_revenue_history) :
          /\ m.source_product # call.product_id
          /\ m.source_product \in DOMAIN products
          /\ m \in Range(products[m.source_product].revenue_history)

\* C4: after calculate_churn_rate on a registered product_id, the record's
\* churn_rate equals the returned value, previous_customers = 0 included.
C4_ChurnRateStored ==
    ( /\ call.op = "calculate_churn_rate"
      /\ call.product_id \in DOMAIN products )
    => products[call.product_id].churn_rate = ret

\* C5: calculate_churn_rate returns 0 when previous_customers = 0; otherwise
\* the rate r with r * previous_customers = 100 * max(0, previous_customers -
\* current_customers), hence 0 when current_customers >= previous_customers;
\* period_days has no influence.
C5_ChurnRateValue ==
    call.op = "calculate_churn_rate" =>
        LET prev == call.previous_customers
            cur  == call.current_customers
            lost == IF prev - cur > 0 THEN prev - cur ELSE 0
        IN  /\ prev = 0 => ret = <<0, 1>>
            /\ prev > 0 => ret[1] * prev = 100 * lost * ret[2]
            /\ cur >= prev => ret = <<0, 1>>

\* a third of the customers were lost over a 7-day period
C5_Witness ==
    /\ call.op = "calculate_churn_rate"
    /\ call.previous_customers = 3
    /\ call.current_customers = 2
    /\ call.period_days = 7
    /\ ret = <<100, 3>>

\* the sum of the rationals f[x], x in S
RECURSIVE SumOver(_, _)
SumOver(S, f) ==
    IF S = {} THEN <<0, 1>>
    ELSE LET x == CHOOSE y \in S : TRUE
         IN  RAdd(f[x], SumOver(S \ {x}, f))

\* the sum of the integers f[x], x in S
RECURSIVE CountOver(_, _)
CountOver(S, f) ==
    IF S = {} THEN 0
    ELSE LET x == CHOOSE y \in S : TRUE
         IN  f[x] + CountOver(S \ {x}, f)

\* C6: calculate_churn_rate and calculate_ltv return, for an unregistered
\* id, the value the arguments alone determine (LTV = avg_monthly_revenue *
\* avg_customer_lifespan_months) and leave the product mapping and the global
\* history unchanged; for a registered id calculate_ltv stores the returned
\* value in lifetime_value and changes no other field of any record.
C6_ComputationsNeverFail ==
    [][ /\ call'.op = "calculate_ltv" =>
            /\ ret' = Rat(call'.avg_monthly_revenue[1] * call'.avg_customer_lifespan_months,
                          call'.avg_monthly_revenue[2])
            /\ total_revenue_history' = total_revenue_history
            /\ keys' = keys
            /\ IF call'.product_id \in DOMAIN products
               THEN products' = [products EXCEPT ![call'.product_id].lifetime_value = ret']
               ELSE products' = products
        /\ ( /\ call'.op = "calculate_churn_rate"
             /\ call'.product_id \notin DOMAIN products ) =>
            LET prev == call'.previous_customers
                cur  == call'.current_customers
                lost == IF prev - cur > 0 THEN prev - cur ELSE 0
            IN  /\ ret' = IF prev = 0 THEN <<0, 1>> ELSE Rat(100 * lost, prev)
                /\ products' = products
                /\ keys' = keys
                /\ total_revenue_history' = total_revenue_history ]_vars

\* the lifetime value was computed for an id the ledger does not know, while
\* another product is registered
C6_Witness ==
    /\ call.op = "calculate_ltv"
    /\ call.product_id \notin DOMAIN products
    /\ DOMAIN products # {}
    /\ ret = <<1740, 1>>

\* C7 as stated: the reported total MRR is the sum of
\* monthly_recurring_revenue over the registered products, the reported total
\* ARR is 12 times that sum, the total of active customers is the sum of
\* active_customers, the per-product list has one entry per registered id,
\* and with no product the average churn rate and the totals are 0.
C7_PortfolioTotalsExact ==
    call.op = "get_portfolio_summary" =>
        LET ids == DOMAIN products
            mrr == SumOver(ids, [p \in ids |-> products[p].monthly_recurring_revenue])
        IN  /\ Parse2(ret.total_mrr) = mrr
            /\ Parse2(ret.total_arr) = RMul(RInt(12), mrr)
            /\ ret.total_active_customers =
                   CountOver(ids, [p \in ids |-> products[p].active_customers])
            /\ Len(ret.portfolio) = Cardinality(ids)
            /\ { ret.portfolio[i].product_id : i \in 1..Len(ret.portfolio) } = ids
            /\ ids = {} => /\ ret.average_churn_rate = 0
                           /\ ret.total_mrr = 0
                           /\ ret.total_arr = 0
                           /\ ret.total_active_customers = 0

\* C7 (amended): the totals are reported as currency strings with two
\* decimals: the reported total MRR is the sum of monthly_recurring_revenue
\* rounded to two decimals, the reported total ARR is 12 times the unrounded
\* sum, rounded to two decimals; the rest as stated.
C7_PortfolioTotalsRounded ==
    call.op = "get_portfolio_summary" =>
        LET ids == DOMAIN products
            mrr == SumOver(ids, [p \in ids |-> products[p].monthly_recurring_revenue])
        IN  /\ ret.total_mrr = Round2(mrr)
            /\ ret.total_arr = Round2(RMul(RInt(12), mrr))
            /\ ret.total_active_customers =
                   CountOver(ids, [p \in ids |-> products[p].active_customers])
            /\ Len(ret.portfolio) = Cardinality(ids)
            /\ { ret.portfolio[i].product_id : i \in 1..Len(ret.portfolio) } = ids
            /\ ids = {} => /\ ret.average_churn_rate = 0
                           /\ ret.total_mrr = 0
                           /\ ret.total_arr = 0
                           /\ ret.total_active_customers = 0

\* two products with target MRR 29 and 1/3: the summary prints 29.33 and
\* 352.00
C7_Witness ==
    /\ call.op = "get_portfolio_summary"
    /\ Cardinality(DOMAIN products) = 2
    /\ ret.total_mrr = 2933
    /\ ret.total_arr = 35200
    /\ Len(ret.portfolio) = 2

\* the total projected MRR of month m, products without churn counted at
\* their target MRR
ExpectedProjected(m) ==
    LET ids == DOMAIN products
    IN  SumOver(ids,
            [p \in ids |->
                IF products[p].churn_rate = <<0, 1>>
                THEN products[p].monthly_recurring_revenue
                ELSE RMul(products[p].monthly_recurring_revenue,
                          RPow(RSub(<<1, 1>>, RDiv(products[p].churn_rate, <<100, 1>>)), m))])

\* C8 as stated: project_revenue(months), months >= 1, returns `months`
\* entries with month indices 1..months, each entry's projected ARR is 12
\* times its projected MRR, and a product without churn contributes its
\* target MRR to every month.
C8_ProjectionArrTwelveTimesMrr ==
    (call.op = "project_revenue" /\ call.months >= 1) =>
        LET e == ret.projections
        IN  /\ Len(e) = call.months
            /\ \A i \in 1..Len(e) :
                  /\ e[i].month = i
                  /\ e[i].projected_mrr = Round2(ExpectedProjected(i))
                  /\ e[i].projected_arr = 12 * e[i].projected_mrr

\* C8 (amended): as stated, except that each entry's projected ARR is 12
\* times the unrounded projected MRR, printed with two decimals: it is within
\* 6 hundredths of 12 times the printed projected MRR, and equal to it when
\* the projected MRR is a whole number of hundredths.
C8_ProjectionArrRounded ==
    (call.op = "project_revenue" /\ call.months >= 1) =>
        LET e == ret.projections
        IN  /\ Len(e) = call.months
            /\ \A i \in 1..Len(e) :
                  /\ e[i].month = i
                  /\ e[i].projected_mrr = Round2(ExpectedProjected(i))
                  /\ e[i].projected_arr = Round2(RMul(<<12, 1>>, ExpectedProjected(i)))
                  /\ Abs(e[i].projected_arr - 12 * e[i].projected_mrr) <= 6
                  /\ Parse2(e[i].projected_mrr) = ExpectedProjected(i)
                        => e[i].projected_arr = 12 * e[i].projected_mrr

\* three months projected for a product of target MRR 29 that loses a third
\* of its customers a month: month 1 prints 19.33 and 232.00
C8_Witness ==
    /\ call.op = "project_revenue"
    /\ call.months = 3
    /\ \E p \in DOMAIN products : products[p].churn_rate = <<100, 3>>
    /\ Len(ret.projections) = 3
    /\ ret.projections[1].projected_mrr = 1933
    /\ ret.projections[1].projected_arr = 23200

\* C9: get_product_summary(P) reports the target MRR given to the latest
\* register_product(P, ...) and an annualized value of 12 times it: a
\* registration sets monthly_recurring_revenue to its argument and no other
\* call changes it.
C9_TargetMrrSetOnlyByRegistration ==
    [][ /\ call'.op = "register_product" =>
            products'[call'.product_id].monthly_recurring_revenue = call'.target_mrr
        /\ \A P \in DOMAIN products :
             ~(call'.op = "register_product" /\ call'.product_id = P) =>
                /\ P \in DOMAIN products'
                /\ products'[P].monthly_recurring_revenue =
                       products[P].monthly_recurring_revenue
        /\ ( /\ call'.op = "get_product_summary"
             /\ call'.product_id \in DOMAIN products ) =>
                /\ ret'.target_mrr = products[call'.product_id].monthly_recurring_revenue
                /\ ret'.annual_run_rate[1] * ret'.target_mrr[2] =
                       12 * ret'.target_mrr[1] * ret'.annual_run_rate[2] ]_vars

\* the summary of a product whose lifetime value and churn rate were
\* computed after its registration
C9_Witness ==
    /\ call.op = "get_product_summary"
    /\ call.product_id \in DOMAIN products
    /\ products[call.product_id].lifetime_value # <<0, 1>>
    /\ products[call.product_id].churn_rate # <<0, 1>>
    /\ ret.target_mrr = products[call.product_id].monthly_recurring_revenue

\* C10: project_revenue, get_product_summary and get_portfolio_summary leave
\* the product mapping and the global history as they were, and two
\* project_revenue calls in a row with the same argument yield the same
\* month indices and projected MRR and ARR.
C10_ReadOnly ==
    [][ /\ call'.op \in {"project_revenue", "get_product_summary", "get_portfolio_summary"} =>
            /\ products' = products
            /\ keys' = keys
            /\ total_revenue_history' = total_revenue_history
        /\ ( /\ call.op = "project_revenue"
             /\ call'.op = "project_revenue"
             /\ call'.months = call.months ) =>
            /\ Len(ret'.projections) = Len(ret.projections)
            /\ \A i \in 1..Len(ret.projections) :
                  /\ ret'.projections[i].month = ret.projections[i].month
                  /\ ret'.projections[i].projected_mrr = ret.projections[i].projected_mrr
                  /\ ret'.projections[i].projected_arr = ret.projections[i].projected_arr ]_vars

\* a projection was computed on a ledger holding a transaction and a product
\* with churn
C10_Witness ==
    /\ call.op = "project_revenue"
    /\ call.months > 0
    /\ Len(total_revenue_history) > 0
    /\ \E p \in DOMAIN products : products[p].churn_rate # <<0, 1>>

\* C11: export_report returns false when opening or writing the file fails
\* and true otherwise, and then the file holds a report with generated_at,
\* the portfolio summary, a projection of exactly 12 months and one products
\* entry per registered id; in both outcomes the product mapping and the
\* global history are unchanged.
C11_ExportNeverRaises ==
    [][ call'.op = "export_report" =>
          /\ ret' \in BOOLEAN
          /\ ret' = (call'.fault = "none")
          /\ products' = products
          /\ keys' = keys
          /\ total_revenue_history' = total_revenue_history
          /\ ret' =>
               /\ DOMAIN file' = {"generated_at", "portfolio_summary",
                                  "revenue_projections", "products"}
               /\ file'.generated_at \in Times
               /\ file'.portfolio_summary.total_products = Cardinality(DOMAIN products)
               /\ Len(file'.revenue_projections.projections) = 12
               /\ \A i \in 1..12 : file'.revenue_projections.projections[i].month = i
               /\ DOMAIN file'.products = DOMAIN products
               /\ \A p \in DOMAIN products :
                     /\ file'.products[p].product_id = p
                     /\ Len(file'.products[p].revenue_history) =
                            Len(products[p].revenue_history) ]_vars

\* writing the report of a ledger with a product and a transaction failed
\* after the file was opened
C11_Witness ==
    /\ call.op = "export_report"
    /\ call.fault = "write"
    /\ ret = FALSE
    /\ file = EmptyFile
    /\ DOMAIN products # {}
    /\ Len(total_revenue_history) > 0


\* the progress lines of a complete run, in the order the steps are written
StepOrder == <<"[1/5]", "[2/5]", "[3/5]", "[4/5]", "[5/5]">>

\* C12: create_product_line runs renderer, repository creation, code push and
\* revenue registration in that fixed order; the revenue engine's
\* register_product runs and orchestrator.products gains its entry only after
\* generation and repository creation have both succeeded; a call that returns
\* None (unknown type, failed generation, failed repository creation) leaves
\* revenue_streams and orchestrator.products as they were and runs no later
\* step; a failed push does not stop the call, which still registers the
\* product and returns its config.
C12_FixedOrderAndAborts ==
    [][ /\ Len(console') <= Len(StepOrder)
        /\ \A i \in 1..Len(console') : console'[i] = StepOrder[i]
        /\ (revenue_streams' # revenue_streams \/ orchestrator_products' # orchestrator_products)
              => /\ locals.generated
                 /\ locals.repo_result # None
                 /\ locals.repo_result.success
                 /\ Len(console) >= 3
        /\ revenue_streams' # revenue_streams
              => /\ console' = SubSeq(StepOrder, 1, 4)
                 /\ Len(revenue_streams') = Len(revenue_streams) + 1
                 /\ SubSeq(revenue_streams', 1, Len(revenue_streams)) = revenue_streams
                 /\ locals.product_type \notin DOMAIN orchestrator_products'
                       \/ orchestrator_products' = orchestrator_products
        /\ orchestrator_products' # orchestrator_products
              => /\ console' = StepOrder
                 /\ revenue_streams' = revenue_streams
                 /\ revenue_streams[Len(revenue_streams)].name
                       = orchestrator_products'[locals.product_type].config.name
        /\ (pc' = "idle" /\ result' = None)
              => /\ revenue_streams' = revenue_streams
                 /\ orchestrator_products' = orchestrator_products
                 /\ "[4/5]" \notin Range(console')
                 /\ "[5/5]" \notin Range(console')
                 /\ \/ locals'.product_type \notin DOMAIN PRODUCT_CONFIGS /\ console' = <<>>
                    \/ ~locals'.generated /\ console' = SubSeq(StepOrder, 1, 1)
                    \/ /\ locals'.generated
                       /\ ~locals'.repo_result.success
                       /\ console' = SubSeq(StepOrder, 1, 2)
        /\ (pc = "push_code" /\ ~locals'.push_success)
              => pc' = "register_product" /\ result' = result
        /\ (pc = "deployment")
              => pc' = "idle" /\ result' = PRODUCT_CONFIGS[locals.product_type]
      ]_vars

\* a second product line was created although its push failed: it is
\* registered again, its entry is in orchestrator.products, its config returned
C12_Witness ==
    /\ pc = "idle"
    /\ console = StepOrder
    /\ ~locals.push_success
    /\ result = PRODUCT_CONFIGS["mesh-messenger"]
    /\ Len(revenue_streams) = 2
    /\ "mesh-messenger" \in DOMAIN orchestrator_products


\* the position of metric m in the sequence s
Pos(s, m) == CHOOSE i \in 1..Len(s) : s[i] = m

\* the sum of the lengths of all product histories
ProductHistoryTotal ==
    CountOver(DOMAIN products, [p \in DOMAIN products |-> Len(products[p].revenue_history)])

\* every product history is a subsequence of the global history, made of
\* metrics of that product
ProductHistoriesWithinGlobal ==
    \A P \in DOMAIN products :
       LET h == products[P].revenue_history
       IN  /\ \A i \in 1..Len(h) :
                /\ h[i] \in Range(total_revenue_history)
                /\ h[i].source_product = P
           /\ \A i, j \in 1..Len(h) :
                i < j => Pos(total_revenue_history, h[i]) < Pos(total_revenue_history, h[j])

\* C13: every metric in products[P].revenue_history also occurs in
\* total_revenue_history, in the same relative order, with source_product = P;
\* so the product histories together are no longer than the global history;
\* the global history grows by one with each successful record_transaction
\* and by nothing otherwise, starting empty; and the inequality is strict
\* exactly when a product with recorded transactions has been re-registered.
C13_HistoriesConsistent ==
    [][ /\ ProductHistoriesWithinGlobal /\ ProductHistoriesWithinGlobal'
        /\ ProductHistoryTotal <= Len(total_revenue_history)
        /\ ProductHistoryTotal' <= Len(total_revenue_history')
        /\ call.op = "__init__"
              => total_revenue_history = <<>> /\ ProductHistoryTotal = 0
        /\ Len(total_revenue_history') = Len(total_revenue_history)
              + (IF call'.op = "record_transaction" /\ ret' = TRUE THEN 1 ELSE 0)
        /\ (ProductHistoryTotal' < Len(total_revenue_history'))
              <=> \/ ProductHistoryTotal < Len(total_revenue_history)
                  \/ /\ call'.op = "register_product"
                     /\ call'.product_id \in DOMAIN products
                     /\ products[call'.product_id].revenue_history # <<>> ]_vars

\* a product with one recorded transaction was registered again and another
\* transaction recorded: its history holds one metric, the global history two
C13_Witness ==
    /\ call.op = "record_transaction"
    /\ ret = TRUE
    /\ Len(total_revenue_history) = 2
    /\ ProductHistoryTotal = 1
    /\ total_revenue_history[1].source_product = call.product_id
    /\ products[call.product_id].revenue_history = <<total_revenue_history[2]>>

====
